---- MODULE Spec2Model ----
(***************************************************************************)
(* A model of lsh (src/lsh.py): the session loop main(), the executors     *)
(* run_interactive and run_capturing, the advisory call ask_llm_for_fix    *)
(* and the fix extractor extract_code_block.                               *)
(*                                                                         *)
(* Text is modelled character by character: a text is a sequence of        *)
(* one-character strings.  The grave accent (U+0060) cannot be written in  *)
(* a string of this language, so the definition BQ stands for it.          *)
(***************************************************************************)
EXTENDS Integers, Sequences, FiniteSets, TLC

\* ------------------------------------------------------------------------
\* Bounds of the model
\* ------------------------------------------------------------------------
\* how many bursts of output a child may write in one capturing execution
MaxWrites == 1
\* how many pieces a response text of the extraction specification is made of
MaxPieces == 5

\* ------------------------------------------------------------------------
\* Characters and strings
\* ------------------------------------------------------------------------
BQ == "BQ"
NL == "\n"
DQ == "\""

\* what str.strip() removes (the whitespace of the model's alphabet)
PyWhitespace == {" ", "\n", "\t"}
\* shlex.whitespace
ShWhitespace == {" ", "\t", "\r", "\n"}
\* shlex.quotes
ShQuotes == {"\"", "'"}

RECURSIVE Str(_)
\* the Python string a sequence of characters spells
Str(s) == IF s = <<>> THEN "" ELSE Head(s) \o Str(Tail(s))

RECURSIVE lstrip(_)
lstrip(s) == IF s # <<>> /\ Head(s) \in PyWhitespace THEN lstrip(Tail(s)) ELSE s

RECURSIVE rstrip(_)
rstrip(s) ==
    IF s # <<>> /\ s[Len(s)] \in PyWhitespace THEN rstrip(SubSeq(s, 1, Len(s) - 1)) ELSE s

\* str.strip()
strip(s) == rstrip(lstrip(s))

\* str.lower() on the answers of the confirmation prompt, character by character
LowerChar(c) ==
    CASE c = "Y" -> "y"
      [] c = "E" -> "e"
      [] c = "S" -> "s"
      [] c = "N" -> "n"
      [] OTHER -> c

lower(s) == [i \in 1..Len(s) |-> LowerChar(s[i])]

\* ------------------------------------------------------------------------
\* shlex.split(user_input): the token reader of shlex in POSIX mode with
\* whitespace_split, on an alphabet of whitespace, the two quote characters
\* and ordinary characters.  state is " " (between tokens), "a" (inside a
\* word) or the quote character that is open.
\* ------------------------------------------------------------------------
RECURSIVE shlex_scan(_, _, _, _, _, _)
shlex_scan(s, i, state, token, quoted, acc) ==
    IF i > Len(s)
    THEN IF state \in ShQuotes
         THEN [err |-> TRUE, toks |-> <<>>]
         ELSE [err |-> FALSE,
               toks |-> IF token # "" \/ quoted THEN Append(acc, token) ELSE acc]
    ELSE LET c == s[i] IN
         IF state \in ShQuotes
         THEN IF c = state
              THEN shlex_scan(s, i + 1, "a", token, TRUE, acc)
              ELSE shlex_scan(s, i + 1, state, token \o c, TRUE, acc)
         ELSE IF c \in ShWhitespace
              THEN IF token # "" \/ quoted
                   THEN shlex_scan(s, i + 1, " ", "", FALSE, Append(acc, token))
                   ELSE shlex_scan(s, i + 1, " ", "", FALSE, acc)
              ELSE IF c \in ShQuotes
                   THEN shlex_scan(s, i + 1, c, token, quoted, acc)
                   ELSE shlex_scan(s, i + 1, "a", token \o c, quoted, acc)

\* shlex.split: err stands for the ValueError of an unterminated quote
shlex_split(s) == shlex_scan(s, 1, " ", "", FALSE, <<>>)

RECURSIVE first_word(_, _)
first_word(s, w) ==
    IF s = <<>> \/ Head(s) \in PyWhitespace THEN w ELSE first_word(Tail(s), w \o Head(s))

\* user_input.split()[0] on a stripped, non-empty line
naive_first(s) == first_word(lstrip(s), "")

\* ------------------------------------------------------------------------
\* Configuration (src/lsh.py lines 13-22)
\* ------------------------------------------------------------------------
IGNORE_LIST ==
    {"vi", "vim", "nvim", "nano", "emacs",
     "htop", "top", "nvtop", "btop", "k9s",
     "less", "more", "man", "ssh", "tmux", "screen"}

\* ------------------------------------------------------------------------
\* extract_code_block (src/lsh.py lines 35-41): re.findall of the pattern
\*   BQ BQ BQ (?:bash|sh)? NL (.*?) BQ BQ BQ      with re.DOTALL
\* and the first match's group.  The search is the regular expression
\* engine's: the leftmost start position at which the pattern matches, the
\* optional tag tried in the order bash, sh, absent, and the shortest body.
\* ------------------------------------------------------------------------
Fence == <<BQ, BQ, BQ>>

\* does the text s hold the characters pat at position i
LooksAt(s, i, pat) ==
    /\ i >= 1
    /\ i + Len(pat) - 1 <= Len(s)
    /\ SubSeq(s, i, i + Len(pat) - 1) = pat

\* position of the first character of the body when the opening of the
\* pattern matches at position i, 0 when it does not
OpenAt(s, i) ==
    IF ~LooksAt(s, i, Fence) THEN 0
    ELSE IF LooksAt(s, i + 3, <<"b", "a", "s", "h", NL>>) THEN i + 8
    ELSE IF LooksAt(s, i + 3, <<"s", "h", NL>>) THEN i + 6
    ELSE IF LooksAt(s, i + 3, <<NL>>) THEN i + 4
    ELSE 0

RECURSIVE CloseFromLast(_, _)
\* a variant of CloseFrom for a greedy body: the last closing fence
CloseFromLast(s, j) ==
    IF j + 2 > Len(s) THEN 0
    ELSE LET later == CloseFromLast(s, j + 1)
         IN  IF later # 0 THEN later
             ELSE IF LooksAt(s, j, Fence) THEN j ELSE 0

RECURSIVE CloseFrom(_, _)
\* position of the first closing fence at or after j, 0 when there is none
CloseFrom(s, j) ==
    IF j + 2 > Len(s) THEN 0
    ELSE IF LooksAt(s, j, Fence) THEN j
    ELSE CloseFrom(s, j + 1)

RECURSIVE re_first(_, _)
\* the first match of the pattern at or after position i: its group
re_first(s, i) ==
    IF i > Len(s) THEN [found |-> FALSE, group |-> <<>>]
    ELSE LET b == OpenAt(s, i)
             e == IF b = 0 THEN 0 ELSE CloseFrom(s, b)
         IN  IF b # 0 /\ e # 0
             THEN [found |-> TRUE, group |-> SubSeq(s, b, e - 1)]
             ELSE re_first(s, i + 1)

extract_code_block(text) ==
    LET m == re_first(text, 1)
    IN  IF m.found THEN strip(m.group) ELSE strip(text)

\* ------------------------------------------------------------------------
\* Byte streams.  The bytes a child writes to the pseudo-terminal are
\* numbered 0, 1, 2, ... in the order it writes them; a run of bytes is the
\* pair <<lo, hi>> of the bytes lo .. hi-1 and a byte string is a sequence
\* of runs, adjacent runs joined, so that equal byte strings are equal
\* values.
\* ------------------------------------------------------------------------
Min(a, b) == IF a < b THEN a ELSE b

\* bytearray.extend(data) and os.write(fd, data): the byte string buf
\* followed by the run chunk
Cat(buf, chunk) ==
    IF chunk[1] = chunk[2] THEN buf
    ELSE IF buf # <<>> /\ buf[Len(buf)][2] = chunk[1]
         THEN [buf EXCEPT ![Len(buf)] = <<buf[Len(buf)][1], chunk[2]>>]
         ELSE Append(buf, chunk)

RECURSIVE NBytes(_)
\* len() of a byte string
NBytes(buf) == IF buf = <<>> THEN 0 ELSE (Head(buf)[2] - Head(buf)[1]) + NBytes(Tail(buf))

RECURSIVE LastN(_, _)
\* buf[-n:]
LastN(buf, n) ==
    IF buf = <<>> \/ n <= 0 THEN <<>>
    ELSE LET last == buf[Len(buf)]
             size == last[2] - last[1]
         IN  IF size >= n THEN << <<last[2] - n, last[2]>> >>
             ELSE Append(LastN(SubSeq(buf, 1, Len(buf) - 1), n - size), last)

\* captured_output.decode("utf-8", errors="replace"): the children of the
\* model write ASCII, whose bytes decode to one character each
decode(buf) == buf

\* ------------------------------------------------------------------------
\* The environment of a session: the file system, the lines a user types,
\* the answers to the confirmation prompt, what the oracle answers and how
\* children behave.
\* ------------------------------------------------------------------------
HOME == "/home/u"
\* the directories that exist and may be entered
Dirs == {HOME, "/tmp"}
\* the directories that exist and may not be entered
Forbidden == {"/root"}

Lines ==
    { <<>>,
      <<" ">>,
      <<"e", "x", "i", "t">>,
      <<"q", "u", "i", "t", " ">>,
      <<"c", "d">>,
      <<" ", "c", "d", " ", "/", "t", "m", "p">>,
      <<"c", "d", " ", "/", "n", "o">>,
      <<"c", "d", " ", "/", "r", "o", "o", "t">>,
      <<"c", "d", " ", "~">>,
      <<"c", "d", " ", DQ, "x">>,
      <<"v", "i", "m">>,
      <<"v", "i", "m", " ", DQ, "f">>,
      <<"l", "s", " ", "/", "t", "m", "p">>,
      <<"l", "s", " ", "'">> }

Answers ==
    { <<"y">>, <<"Y">>, <<>>, <<"n">>, <<"N">>, <<"y", "e", "s">>, <<" ", "y">> }

\* what llm.invoke may return
Responses ==
    { <<BQ, BQ, BQ, "b", "a", "s", "h", NL, "l", "s", NL, BQ, BQ, BQ>>,
      <<" ", NL>> }

\* the text of f"LLM Error: {e}" for the error e the oracle call raised
LLMErrorText == <<"L", "L", "M", " ", "E", "r", "r", "o", "r", ":", " ", "e">>

\* the exit codes of the shell children of run_capturing in the model
ExitCodes == {0, 1}

\* the exit codes of the children of run_interactive in the model
InteractiveCodes == {0, 1, 127}

\* the sizes of the bursts a child writes to the pseudo-terminal
BurstSizes == {1, 4097}

\* ------------------------------------------------------------------------
\* State
\* ------------------------------------------------------------------------
VARIABLES
    AGENT_MODE,       \* the module-level flag, set once at startup
    pc,               \* where main() is
    cwd,              \* the working directory of the process
    tokens,           \* main's local tokens
    tokens_bound,     \* whether the local tokens has been assigned
    user_input,       \* main's local user_input
    base_cmd,         \* main's local base_cmd
    exit_code,        \* main's local exit_code: <<>> unassigned, <<n>>
    full_output,      \* main's local full_output
    prompt,           \* the prompt ask_llm_for_fix sends
    response,         \* main's local response
    fixed_cmd,        \* main's local fixed_cmd
    confirm,          \* main's local confirm: <<>> unassigned, <<answer>>
    cmd_list,         \* the argument of run_interactive
    rc_pc,            \* where run_capturing is
    rc_for,           \* which call of main run_capturing serves
    cmd_str,          \* the argument of run_capturing
    master,           \* the primary descriptor in the parent
    slave,            \* the secondary descriptor in the parent
    captured_output,  \* the bytearray of run_capturing
    data,             \* the chunk last read from the primary side
    returncode,       \* p.returncode: <<>> for None, <<n>>
    child,            \* the child process: none, running, zombie, reaped
    child_code,       \* the exit code the child exited with
    nwritten,         \* bytes written to the secondary side so far
    nread,            \* bytes read from the primary side so far
    nbursts,          \* bursts written so far
    holder,           \* another process holds the secondary side open
    shown,            \* the bytes written to the display by this execution
    calls,            \* the calls main made for the current line
    ri,               \* what happened in the last run_interactive
    returned,         \* the exit codes run_capturing returned for the current line
    printed,          \* the messages printed for the current line
    ex_pc,            \* extraction specification: the step
    ex_text,          \* extraction specification: the response text
    ex_out            \* extraction specification: the results

sessVars == <<AGENT_MODE, pc, cwd, tokens, tokens_bound, user_input, base_cmd,
              exit_code, full_output, prompt, response, fixed_cmd, confirm, cmd_list>>
rcVars == <<rc_pc, rc_for, cmd_str, master, slave, captured_output, data, returncode>>
envVars == <<child, child_code, nwritten, nread, nbursts, holder>>
logVars == <<shown, calls, ri, returned, printed>>
exVars == <<ex_pc, ex_text, ex_out>>
vars == <<sessVars, rcVars, envVars, logVars, exVars>>

InitSession ==
    /\ AGENT_MODE \in BOOLEAN
    /\ pc = "Prompt"
    /\ cwd = HOME
    /\ tokens = <<>>
    /\ tokens_bound = FALSE
    /\ user_input = <<>>
    /\ base_cmd = ""
    /\ exit_code = <<>>
    /\ full_output = <<>>
    /\ prompt = <<>>
    /\ response = <<>>
    /\ fixed_cmd = <<>>
    /\ confirm = <<>>
    /\ cmd_list = <<>>
    /\ rc_pc = "idle"
    /\ rc_for = "none"
    /\ cmd_str = <<>>
    /\ master = "none"
    /\ slave = "none"
    /\ captured_output = <<>>
    /\ data = <<0, 0>>
    /\ returncode = <<>>
    /\ child = "none"
    /\ child_code = <<>>
    /\ nwritten = 0
    /\ nread = 0
    /\ nbursts = 0
    /\ holder = FALSE
    /\ shown = <<>>
    /\ calls = <<>>
    /\ ri = <<>>
    /\ returned = <<>>
    /\ printed = <<>>

Init ==
    /\ InitSession
    /\ ex_pc = "off"
    /\ ex_text = <<>>
    /\ ex_out = <<>>

\* ------------------------------------------------------------------------
\* Exceptions
\* ------------------------------------------------------------------------
\* does "except Exception" catch exc: every exception of the model but
\* KeyboardInterrupt derives from Exception
IsException(exc) == exc # "KeyboardInterrupt"

\* does "except OSError" catch exc
IsOSError(exc) == exc \in {"OSError", "FileNotFoundError", "PermissionError"}

\* a variant of main_except without the KeyboardInterrupt clause
main_except_no_interrupt(exc) == IF exc = "EOFError" THEN "Done" ELSE "Crashed"

\* the handlers of main's try statement (lines 197-201): where main goes
\* when exc reaches them
main_except(exc) ==
    CASE exc = "KeyboardInterrupt" -> "Prompt"
      [] exc = "EOFError" -> "Done"
      [] OTHER -> "Crashed"

\* ------------------------------------------------------------------------
\* main, lines 144-171: reading one line and classifying it
\* ------------------------------------------------------------------------
\* the tokens after main has tokenized the stripped line ui: the assignment
\* of line 154 does not happen when shlex.split raises ValueError
TokensAfter(ui) == IF shlex_split(ui).err THEN tokens ELSE shlex_split(ui).toks

BoundAfter(ui) == IF shlex_split(ui).err THEN tokens_bound ELSE TRUE

\* base_cmd, lines 156 and 159
BaseCmd(ui) == IF shlex_split(ui).err THEN naive_first(ui) ELSE shlex_split(ui).toks[1]

\* a variant of Classification without the raw-terminal branch
Classification_no_ignore(line) ==
    LET ui == strip(line) IN
    IF ui = <<>> THEN "noop"
    ELSE IF Str(ui) \in {"exit", "quit"} THEN "exit"
    ELSE IF ~shlex_split(ui).err /\ shlex_split(ui).toks = <<>> THEN "noop"
    ELSE IF BaseCmd(ui) = "cd" THEN "cd"
    ELSE "capturable"

\* which branch of main a line takes
Classification(line) ==
    LET ui == strip(line) IN
    IF ui = <<>> THEN "noop"
    ELSE IF Str(ui) \in {"exit", "quit"} THEN "exit"
    ELSE IF ~shlex_split(ui).err /\ shlex_split(ui).toks = <<>> THEN "noop"
    ELSE IF BaseCmd(ui) = "cd" THEN "cd"
    ELSE IF BaseCmd(ui) \in IGNORE_LIST THEN "interactive"
    ELSE "capturable"

\* os.path.expanduser
expanduser(path) == IF path = "~" THEN HOME ELSE path

\* a variant of cd_attempt in which os.chdir enters whatever it is given
cd_attempt_unchecked(toks, bound) ==
    IF ~bound THEN [exc |-> "UnboundLocalError", dir |-> ""]
    ELSE [exc |-> "", dir |-> IF Len(toks) > 1 THEN toks[2] ELSE HOME]

\* lines 164-165: the exception the cd built-in raises, "" when it raises
\* none, and the directory os.chdir enters
cd_attempt(toks, bound) ==
    IF ~bound THEN [exc |-> "UnboundLocalError", dir |-> ""]
    ELSE LET target == IF Len(toks) > 1 THEN toks[2] ELSE expanduser("~")
         IN  IF target \in Dirs THEN [exc |-> "", dir |-> target]
             ELSE IF target \in Forbidden THEN [exc |-> "PermissionError", dir |-> ""]
             ELSE [exc |-> "FileNotFoundError", dir |-> ""]

\* a local that is assigned again before it is next read is cleared: the
\* locals of a line when the next line is read, the parameter of
\* run_interactive when it returns, and exit_code, full_output and the
\* prompt once the advice has been taken
FreshLocals ==
    /\ exit_code' = <<>>
    /\ full_output' = <<>>
    /\ prompt' = <<>>
    /\ response' = <<>>
    /\ fixed_cmd' = <<>>
    /\ confirm' = <<>>
    /\ cmd_list' = <<>>

\* run_capturing lines 83-98, entered for command cmd: the pseudo-terminal
\* is opened and the child spawned; Popen raising leaves main through its
\* handlers with both descriptors open
StartCapture(cmd, forwhat, spawned) ==
    /\ cmd_str' = cmd
    /\ calls' = Append(IF forwhat = "cmd" THEN <<>> ELSE calls,
                       [fn |-> "run_capturing", arg |-> cmd])
    /\ captured_output' = <<>>
    /\ data' = <<0, 0>>
    /\ returncode' = <<>>
    /\ child_code' = <<>>
    /\ nwritten' = 0
    /\ nread' = 0
    /\ nbursts' = 0
    /\ holder' = FALSE
    /\ shown' = <<>>
    /\ master' = "open"
    /\ IF spawned
       THEN /\ pc' = "Capturing"
            /\ rc_pc' = "select"
            /\ rc_for' = forwhat
            /\ slave' = "closed"
            /\ child' = "running"
       ELSE /\ pc' = main_except("OSError")
            /\ rc_pc' = "idle"
            /\ rc_for' = "none"
            /\ slave' = "open"
            /\ child' = child

\* input() at the prompt raises: Ctrl-C or end of input
PromptRaise(exc) ==
    /\ pc = "Prompt"
    /\ pc' = main_except(exc)
    /\ printed' = IF exc = "KeyboardInterrupt" THEN <<"newline">> ELSE <<>>
    /\ calls' = <<>>
    /\ ri' = <<>>
    /\ returned' = <<>>
    /\ UNCHANGED <<AGENT_MODE, cwd, tokens, tokens_bound, user_input, base_cmd,
                   exit_code, full_output, prompt, response, fixed_cmd, confirm,
                   cmd_list, rcVars, envVars, shown, exVars>>

\* an empty line (line 147) or an empty token list (line 155)
PromptNoop(line) ==
    /\ pc = "Prompt"
    /\ Classification(line) = "noop"
    /\ pc' = "Prompt"
    /\ user_input' = strip(line)
    /\ tokens' = IF strip(line) = <<>> THEN tokens ELSE TokensAfter(strip(line))
    /\ tokens_bound' = IF strip(line) = <<>> THEN tokens_bound ELSE BoundAfter(strip(line))
    /\ FreshLocals
    /\ calls' = <<>>
    /\ ri' = <<>>
    /\ returned' = <<>>
    /\ printed' = <<>>
    /\ UNCHANGED <<AGENT_MODE, cwd, base_cmd, rcVars, envVars, shown, exVars>>

\* exit or quit (line 150)
PromptExit(line) ==
    /\ pc = "Prompt"
    /\ Classification(line) = "exit"
    /\ pc' = "Done"
    /\ user_input' = strip(line)
    /\ FreshLocals
    /\ calls' = <<>>
    /\ ri' = <<>>
    /\ returned' = <<>>
    /\ printed' = <<>>
    /\ UNCHANGED <<AGENT_MODE, cwd, tokens, tokens_bound, base_cmd,
                   rcVars, envVars, shown, exVars>>

\* the cd built-in (lines 162-168)
BuiltinCd(line) ==
    LET ui == strip(line)
        att == cd_attempt(TokensAfter(ui), BoundAfter(ui))
    IN  /\ pc = "Prompt"
        /\ Classification(line) = "cd"
        /\ user_input' = ui
        /\ tokens' = TokensAfter(ui)
        /\ tokens_bound' = BoundAfter(ui)
        /\ base_cmd' = BaseCmd(ui)
        /\ FreshLocals
        /\ calls' = <<>>
        /\ ri' = <<>>
        /\ returned' = <<>>
        /\ IF att.exc = ""
           THEN /\ cwd' = att.dir
                /\ printed' = <<>>
                /\ pc' = "Prompt"
           ELSE /\ cwd' = cwd
                /\ IF IsException(att.exc)
                   THEN /\ printed' = <<"cd: " \o att.exc>>
                        /\ pc' = "Prompt"
                   ELSE /\ printed' = <<>>
                        /\ pc' = main_except(att.exc)
        /\ UNCHANGED <<AGENT_MODE, rcVars, envVars, shown, exVars>>

\* a raw-terminal program (lines 171-172): run_interactive(tokens) is entered
DispatchInteractive(line) ==
    LET ui == strip(line) IN
    /\ pc = "Prompt"
    /\ Classification(line) = "interactive"
    /\ user_input' = ui
    /\ tokens' = TokensAfter(ui)
    /\ tokens_bound' = BoundAfter(ui)
    /\ base_cmd' = BaseCmd(ui)
    /\ exit_code' = <<>>
    /\ full_output' = <<>>
    /\ prompt' = <<>>
    /\ response' = <<>>
    /\ fixed_cmd' = <<>>
    /\ confirm' = <<>>
    /\ ri' = <<>>
    /\ returned' = <<>>
    /\ printed' = <<>>
    /\ IF BoundAfter(ui)
       THEN /\ pc' = "Interactive"
            /\ cmd_list' = TokensAfter(ui)
            /\ calls' = <<[fn |-> "run_interactive", arg |-> TokensAfter(ui)]>>
       ELSE /\ pc' = main_except("UnboundLocalError")
            /\ cmd_list' = <<>>
            /\ calls' = <<>>
    /\ UNCHANGED <<AGENT_MODE, cwd, rcVars, envVars, shown, exVars>>

\* any other command (line 177): run_capturing(user_input) is entered
DispatchCapturing(line, spawned) ==
    LET ui == strip(line) IN
    /\ pc = "Prompt"
    /\ Classification(line) = "capturable"
    /\ user_input' = ui
    /\ tokens' = TokensAfter(ui)
    /\ tokens_bound' = BoundAfter(ui)
    /\ base_cmd' = BaseCmd(ui)
    /\ FreshLocals
    /\ ri' = <<>>
    /\ returned' = <<>>
    /\ printed' = <<>>
    /\ StartCapture(ui, "cmd", spawned)
    /\ UNCHANGED <<AGENT_MODE, cwd, exVars>>

\* ------------------------------------------------------------------------
\* run_interactive (lines 66-76)
\* ------------------------------------------------------------------------
\* what subprocess.run(cmd_list) may do: the child runs and exits with a
\* code, or an exception is raised
RiOutcomes ==
    {[exc |-> "", code |-> <<c>>] : c \in InteractiveCodes}
    \cup {[exc |-> e, code |-> <<>>] :
             e \in {"FileNotFoundError", "PermissionError", "KeyboardInterrupt"}}

\* the exit code run_interactive returns for an outcome it handles
run_interactive(outcome) ==
    IF outcome.exc = "" THEN 0
    ELSE IF outcome.exc = "FileNotFoundError" THEN 127
    ELSE 1

\* run_interactive ends, and main continues at line 174
InteractiveDone(outcome) ==
    /\ pc = "Interactive"
    /\ ri' = <<outcome>>
    /\ returned' = returned
    /\ IF outcome.exc = "" \/ IsException(outcome.exc)
       THEN /\ exit_code' = <<run_interactive(outcome)>>
            /\ pc' = "Prompt"
            /\ printed' = IF outcome.exc = "" THEN printed
                          ELSE IF outcome.exc = "FileNotFoundError"
                               THEN Append(printed, "lsh: command not found")
                               ELSE Append(printed, "lsh: execution error")
       ELSE /\ exit_code' = exit_code
            /\ pc' = main_except(outcome.exc)
            /\ printed' = Append(printed, "newline")
    /\ cmd_list' = <<>>
    /\ UNCHANGED <<AGENT_MODE, cwd, tokens, tokens_bound, user_input, base_cmd,
                   full_output, prompt, response, fixed_cmd, confirm,
                   rcVars, envVars, shown, calls, exVars>>

\* ------------------------------------------------------------------------
\* The child of run_capturing and the pseudo-terminal
\* ------------------------------------------------------------------------
\* bytes written to the secondary side and not yet read from the primary
pending == nwritten - nread

\* no process holds the secondary side open any more
hangup == child # "running" /\ ~holder

\* the child writes a burst of k bytes
ChildWrite(k) ==
    /\ pc = "Capturing"
    /\ master = "open"
    /\ child = "running"
    /\ nbursts < MaxWrites
    /\ nwritten' = nwritten + k
    /\ nbursts' = nbursts + 1
    /\ UNCHANGED <<sessVars, rcVars, child, child_code, nread, holder, logVars, exVars>>

\* the child exits with code c; bg: a background job it started keeps the
\* secondary side open
ChildExit(c, bg) ==
    /\ pc = "Capturing"
    /\ child = "running"
    /\ child' = "zombie"
    /\ child_code' = <<c>>
    /\ holder' = bg
    /\ UNCHANGED <<sessVars, rcVars, nwritten, nread, nbursts, logVars, exVars>>

\* the background job closes the secondary side
HolderClose ==
    /\ pc = "Capturing"
    /\ holder
    /\ holder' = FALSE
    /\ UNCHANGED <<sessVars, rcVars, child, child_code, nwritten, nread, nbursts,
                   logVars, exVars>>

\* ------------------------------------------------------------------------
\* run_capturing, the relay loop (lines 100-127)
\* ------------------------------------------------------------------------
\* line 103: select on the primary side, at most 0.1 s
RcSelect ==
    /\ pc = "Capturing"
    /\ rc_pc = "select"
    /\ rc_pc' = IF pending > 0 \/ hangup THEN "read" ELSE "poll"
    /\ UNCHANGED <<sessVars, rc_for, cmd_str, master, slave, captured_output, data,
                   returncode, envVars, logVars, exVars>>

\* lines 106-108: os.read(master, 1024); at a hangup with nothing pending
\* the read returns no data (break) or raises OSError (pass), and the
\* finally clause closes the primary side either way
RcRead ==
    /\ pc = "Capturing"
    /\ rc_pc = "read"
    /\ IF pending > 0
       THEN /\ data' = <<nread, nread + Min(pending, 1024)>>
            /\ nread' = nread + Min(pending, 1024)
            /\ rc_pc' = "write"
            /\ master' = master
       ELSE /\ data' = <<nread, nread>>
            /\ nread' = nread
            /\ rc_pc' = "wait"
            /\ master' = "closed"
    /\ UNCHANGED <<sessVars, rc_for, cmd_str, slave, captured_output, returncode,
                   child, child_code, nwritten, nbursts, holder, logVars, exVars>>

\* lines 111 and 121: os.write(sys.stdout.fileno(), data)
RcWrite ==
    /\ pc = "Capturing"
    /\ rc_pc \in {"write", "dwrite"}
    /\ shown' = Cat(shown, data)
    /\ rc_pc' = IF rc_pc = "write" THEN "extend" ELSE "dextend"
    /\ UNCHANGED <<sessVars, rc_for, cmd_str, master, slave, captured_output, data,
                   returncode, envVars, calls, ri, returned, printed, exVars>>

\* a variant of RcExtend that does not buffer the chunk of the final drain
RcExtendLoopOnly ==
    /\ pc = "Capturing"
    /\ rc_pc \in {"extend", "dextend"}
    /\ captured_output' = IF rc_pc = "extend" THEN Cat(captured_output, data)
                          ELSE captured_output
    /\ rc_pc' = IF rc_pc = "extend" THEN "poll" ELSE "wait"
    /\ master' = IF rc_pc = "extend" THEN master ELSE "closed"
    /\ UNCHANGED <<sessVars, rc_for, cmd_str, slave, data, returncode, envVars,
                   logVars, exVars>>

\* lines 114 and 122-123: captured_output.extend(data); after the final
\* drain the loop is left and the finally clause closes the primary side
RcExtend ==
    /\ pc = "Capturing"
    /\ rc_pc \in {"extend", "dextend"}
    /\ captured_output' = Cat(captured_output, data)
    /\ rc_pc' = IF rc_pc = "extend" THEN "poll" ELSE "wait"
    /\ master' = IF rc_pc = "extend" THEN master ELSE "closed"
    /\ UNCHANGED <<sessVars, rc_for, cmd_str, slave, data, returncode, envVars,
                   logVars, exVars>>

\* line 117: p.poll(), which reaps a child that has exited
RcPoll ==
    /\ pc = "Capturing"
    /\ rc_pc = "poll"
    /\ IF child = "zombie"
       THEN /\ child' = "reaped"
            /\ returncode' = child_code
            /\ rc_pc' = "drain"
       ELSE /\ child' = child
            /\ returncode' = returncode
            /\ rc_pc' = IF returncode # <<>> THEN "drain" ELSE "select"
    /\ UNCHANGED <<sessVars, rc_for, cmd_str, master, slave, captured_output, data,
                   child_code, nwritten, nread, nbursts, holder, logVars, exVars>>

\* lines 119-123: os.read(master, 4096) on the blocking descriptor: it
\* returns what is pending, at most 4096 bytes; with nothing pending it
\* fails or returns nothing at a hangup and otherwise blocks
RcDrain ==
    /\ pc = "Capturing"
    /\ rc_pc = "drain"
    /\ pending > 0 \/ hangup
    /\ IF pending > 0
       THEN /\ data' = <<nread, nread + Min(pending, 4096)>>
            /\ nread' = nread + Min(pending, 4096)
            /\ rc_pc' = "dwrite"
            /\ master' = master
       ELSE /\ data' = <<nread, nread>>
            /\ nread' = nread
            /\ rc_pc' = "wait"
            /\ master' = "closed"
    /\ UNCHANGED <<sessVars, rc_for, cmd_str, slave, captured_output, returncode,
                   child, child_code, nwritten, nbursts, holder, logVars, exVars>>

\* what leaving run_capturing does to its locals and to the model of the
\* pseudo-terminal, which goes away with its descriptors
RcLeave ==
    /\ rc_pc' = "idle"
    /\ rc_for' = "none"
    /\ cmd_str' = <<>>
    /\ captured_output' = <<>>
    /\ data' = <<0, 0>>
    /\ returncode' = <<>>
    /\ child_code' = <<>>
    /\ nwritten' = 0
    /\ nread' = 0
    /\ nbursts' = 0
    /\ holder' = FALSE

\* an exception is raised inside run_capturing.  OSError is raised by a
\* system call of the loop (select, os.read, os.write, p.poll), which then
\* has had no effect; it is passed over (line 124) and the function goes on
\* to p.wait().  KeyboardInterrupt is raised anywhere and leaves the
\* function, through the finally clause (line 127) when it is raised inside
\* the try statement
RcRaise(exc) ==
    /\ pc = "Capturing"
    /\ IsOSError(exc) => rc_pc \in {"select", "read", "write", "poll", "drain", "dwrite"}
    /\ IF IsOSError(exc)
       THEN /\ rc_pc' = "wait"
            /\ master' = "closed"
            /\ UNCHANGED <<pc, rc_for, cmd_str, captured_output, data, returncode,
                           child_code, nwritten, nread, nbursts, holder, shown, printed>>
       ELSE /\ master' = "closed"
            /\ pc' = main_except(exc)
            /\ printed' = Append(printed, "newline")
            /\ shown' = <<>>
            /\ RcLeave
    /\ UNCHANGED <<AGENT_MODE, cwd, tokens, tokens_bound, user_input, base_cmd,
                   exit_code, full_output, prompt, response, fixed_cmd, confirm,
                   cmd_list, slave, child, calls, ri, returned, exVars>>

\* a variant of failed that takes every exit code for a failure
failed_always(code) == TRUE

\* main, line 180: does the exit code send main to the advisory client
failed(code) == code # 0

\* a variant of truncated_out that keeps the last 1000 characters, as the
\* wording of the prompt has it
truncated_out_1000(full) == IF NBytes(full) > 1000 THEN LastN(full, 1000) ELSE full

\* ask_llm_for_fix, line 46
truncated_out(full) == IF NBytes(full) > 2000 THEN LastN(full, 2000) ELSE full

\* lines 129-131 for run_capturing(user_input), then lines 177-181 of main:
\* p.wait() returns once the child has exited, and a nonzero exit code
\* takes main into ask_llm_for_fix, up to llm.invoke
RcReturnCmd ==
    LET code == IF returncode # <<>> THEN returncode[1] ELSE child_code[1] IN
    /\ pc = "Capturing"
    /\ rc_pc = "wait"
    /\ rc_for = "cmd"
    /\ returncode # <<>> \/ child = "zombie"
    /\ child' = "reaped"
    /\ exit_code' = <<code>>
    /\ full_output' = decode(captured_output)
    /\ IF failed(code)
       THEN /\ pc' = "Advise"
            /\ prompt' = <<[cmd |-> user_input, code |-> code,
                            out |-> truncated_out(decode(captured_output))]>>
            /\ calls' = Append(calls, [fn |-> "ask_llm_for_fix", arg |-> user_input])
            /\ printed' = Append(printed, "Analyzing failure")
       ELSE /\ pc' = "Prompt"
            /\ prompt' = prompt
            /\ calls' = calls
            /\ printed' = printed
    /\ shown' = <<>>
    /\ RcLeave
    /\ UNCHANGED <<AGENT_MODE, cwd, tokens, tokens_bound, user_input, base_cmd,
                   response, fixed_cmd, confirm, cmd_list, master, slave, ri, exVars>>
    /\ returned' = Append(returned, code)

\* a variant of after_fix that takes a failed fix back to the advisory client
after_fix_retry(code) == IF code # 0 THEN "Advise" ELSE "Prompt"

\* main, lines 190 and 195: where main goes when run_capturing(fixed_cmd)
\* has returned with exit code code; the result is not even bound
after_fix(code) == "Prompt"

\* lines 129-131 for run_capturing(fixed_cmd) (lines 190 and 195): the
\* result is dropped and main goes back to the prompt
RcReturnFix ==
    /\ pc = "Capturing"
    /\ rc_pc = "wait"
    /\ rc_for = "fix"
    /\ returncode # <<>> \/ child = "zombie"
    /\ child' = "reaped"
    /\ pc' = after_fix(IF returncode # <<>> THEN returncode[1] ELSE child_code[1])
    /\ shown' = <<>>
    /\ RcLeave
    /\ UNCHANGED <<AGENT_MODE, cwd, tokens, tokens_bound, user_input, base_cmd,
                   exit_code, full_output, prompt, response, fixed_cmd, confirm,
                   cmd_list, master, slave, calls, ri, printed, exVars>>
    /\ returned' = Append(returned, IF returncode # <<>> THEN returncode[1] ELSE child_code[1])

\* ------------------------------------------------------------------------
\* main, lines 181-195: the advice, the suggestion and its execution
\* ------------------------------------------------------------------------
\* lines 183-193 once ask_llm_for_fix has returned resp
Present(resp, spawned) ==
    /\ response' = resp
    /\ fixed_cmd' = extract_code_block(resp)
    /\ IF AGENT_MODE
       THEN /\ printed' = printed \o <<"Suggested Fix", "Agent Mode executing fix">>
            /\ StartCapture(extract_code_block(resp), "fix", spawned)
       ELSE /\ spawned
            /\ printed' = Append(printed, "Suggested Fix")
            /\ pc' = "Confirm"
            /\ UNCHANGED <<rcVars, envVars, shown, calls>>
    /\ exit_code' = <<>>
    /\ full_output' = <<>>
    /\ prompt' = <<>>
    /\ UNCHANGED <<AGENT_MODE, cwd, tokens, tokens_bound, user_input, base_cmd,
                   confirm, cmd_list, ri, returned, exVars>>

\* llm.invoke returns the text r (lines 60-62)
LLMAnswer(r, spawned) ==
    /\ pc = "Advise"
    /\ Present(r, spawned)

\* a variant of LLMRaise in which ask_llm_for_fix catches nothing: every
\* exception of llm.invoke reaches main's handlers
LLMRaisePropagates(exc, spawned) ==
    /\ pc = "Advise"
    /\ spawned
    /\ pc' = main_except(exc)
    /\ printed' = Append(printed, "newline")
    /\ UNCHANGED <<AGENT_MODE, cwd, tokens, tokens_bound, user_input,
                   base_cmd, exit_code, full_output, prompt, response,
                   fixed_cmd, confirm, cmd_list, rcVars, envVars, shown,
                   calls, ri, returned, exVars>>

\* llm.invoke raises (lines 63-64): an Exception becomes the error text that
\* ask_llm_for_fix returns, anything else leaves through main's handlers
LLMRaise(exc, spawned) ==
    /\ pc = "Advise"
    /\ IF IsException(exc)
       THEN Present(LLMErrorText, spawned)
       ELSE /\ spawned
            /\ pc' = main_except(exc)
            /\ printed' = Append(printed, "newline")
            /\ UNCHANGED <<AGENT_MODE, cwd, tokens, tokens_bound, user_input,
                           base_cmd, exit_code, full_output, prompt, response,
                           fixed_cmd, confirm, cmd_list, rcVars, envVars, shown,
                           calls, ri, returned, exVars>>

\* a variant of affirmative that accepts every answer beginning with y or Y
affirmative_prefix(a) == a # <<>> /\ LowerChar(a[1]) = "y"

\* line 194: confirm.lower() == 'y'
affirmative(a) == Str(lower(a)) = "y"

\* the answer to "Run this command? [y/N]" (lines 193-195)
ConfirmAnswer(a, spawned) ==
    /\ pc = "Confirm"
    /\ confirm' = <<a>>
    /\ IF affirmative(a)
       THEN StartCapture(fixed_cmd, "fix", spawned)
       ELSE /\ spawned
            /\ pc' = "Prompt"
            /\ UNCHANGED <<rcVars, envVars, shown, calls>>
    /\ UNCHANGED <<AGENT_MODE, cwd, tokens, tokens_bound, user_input, base_cmd,
                   exit_code, full_output, prompt, response, fixed_cmd, cmd_list,
                   ri, returned, printed, exVars>>

\* input() at the confirmation prompt raises
ConfirmRaise(exc) ==
    /\ pc = "Confirm"
    /\ pc' = main_except(exc)
    /\ printed' = IF exc = "KeyboardInterrupt" THEN Append(printed, "newline") ELSE printed
    /\ UNCHANGED <<AGENT_MODE, cwd, tokens, tokens_bound, user_input, base_cmd,
                   exit_code, full_output, prompt, response, fixed_cmd, confirm,
                   cmd_list, rcVars, envVars, shown, calls, ri, returned, exVars>>

\* ------------------------------------------------------------------------
\* The session
\* ------------------------------------------------------------------------
Next ==
    \/ \E exc \in {"KeyboardInterrupt", "EOFError"} : PromptRaise(exc)
    \/ \E line \in Lines : PromptNoop(line)
    \/ \E line \in Lines : PromptExit(line)
    \/ \E line \in Lines : BuiltinCd(line)
    \/ \E line \in Lines : DispatchInteractive(line)
    \/ \E line \in Lines, spawned \in BOOLEAN : DispatchCapturing(line, spawned)
    \/ \E outcome \in RiOutcomes : InteractiveDone(outcome)
    \/ \E k \in BurstSizes : ChildWrite(k)
    \/ \E c \in ExitCodes, bg \in BOOLEAN : ChildExit(c, bg)
    \/ HolderClose
    \/ RcSelect
    \/ RcRead
    \/ RcWrite
    \/ RcExtend
    \/ RcPoll
    \/ RcDrain
    \/ \E exc \in {"KeyboardInterrupt", "OSError"} : RcRaise(exc)
    \/ RcReturnCmd
    \/ RcReturnFix
    \/ \E r \in Responses, spawned \in BOOLEAN : LLMAnswer(r, spawned)
    \/ \E exc \in {"ConnectionError", "KeyboardInterrupt"}, spawned \in BOOLEAN :
           LLMRaise(exc, spawned)
    \/ \E a \in Answers, spawned \in BOOLEAN : ConfirmAnswer(a, spawned)
    \/ \E exc \in {"KeyboardInterrupt", "EOFError"} : ConfirmRaise(exc)

Spec == Init /\ [][Next]_vars


\* ------------------------------------------------------------------------
\* The extraction specification: extract_code_block applied to a response
\* text, and applied again to its own result
\* ------------------------------------------------------------------------
Pieces ==
    { Fence, <<NL>>, <<" ">>, <<"s", "h">>, <<"b", "a", "s", "h">>, <<"x">>, <<BQ>> }

RECURSIVE PieceTexts(_)
\* the texts made of at most n pieces
PieceTexts(n) ==
    IF n = 0 THEN {<<>>}
    ELSE LET shorter == PieceTexts(n - 1)
         IN  shorter \cup {p \o t : p \in Pieces, t \in shorter}

\* the texts with two fenced blocks
TwoBlockTexts ==
    { pre \o Fence \o tag1 \o <<NL>> \o body1 \o Fence \o mid
          \o Fence \o tag2 \o <<NL, "y">> \o Fence :
        pre \in {<<>>, <<"x", " ">>},
        tag1 \in {<<>>, <<"s", "h">>, <<"b", "a", "s", "h">>, <<"p", "y">>},
        body1 \in {<<>>, <<"x">>, <<" ", "x", NL>>, <<"x", BQ, BQ>>},
        mid \in {<<>>, <<NL>>, <<"x">>},
        tag2 \in {<<>>, <<"s", "h">>} }

Texts == PieceTexts(MaxPieces) \cup TwoBlockTexts

InitExtract ==
    /\ InitSession
    /\ AGENT_MODE = FALSE
    /\ ex_pc = "start"
    /\ ex_text \in Texts
    /\ ex_out = <<>>

\* fixed_cmd = extract_code_block(response)
ExtractOnce ==
    /\ ex_pc = "start"
    /\ ex_out' = <<extract_code_block(ex_text)>>
    /\ ex_pc' = "once"
    /\ UNCHANGED <<sessVars, rcVars, envVars, logVars, ex_text>>

\* extract_code_block applied to its own result
ExtractAgain ==
    /\ ex_pc = "once"
    /\ ex_out' = Append(ex_out, extract_code_block(ex_out[1]))
    /\ ex_pc' = "twice"
    /\ UNCHANGED <<sessVars, rcVars, envVars, logVars, ex_text>>

NextExtract == ExtractOnce \/ ExtractAgain

SpecExtract == InitExtract /\ [][NextExtract]_vars


\* ------------------------------------------------------------------------
\* Properties
\* ------------------------------------------------------------------------
\* how many calls of function f main has made for the current line
NCalls(f) == Cardinality({i \in 1..Len(calls) : calls[i].fn = f})

\* the current line is a capturable command: not empty, not exit or quit,
\* not cd, first token not in the raw-terminal list
CapturableLine ==
    /\ user_input # <<>>
    /\ Str(user_input) \notin {"exit", "quit"}
    /\ base_cmd # "cd"
    /\ base_cmd \notin IGNORE_LIST

\* C1: for every line the session loop dispatches, ask_llm_for_fix is called
\* (once) if and only if the line is a capturable command and run_capturing
\* returned a nonzero exit code for it; it is never called after exit code 0.
C1_AdviceIffCapturableFailure ==
    /\ NCalls("ask_llm_for_fix") <= 1
    /\ NCalls("ask_llm_for_fix") = 1
         <=> (CapturableLine /\ returned # <<>> /\ returned[1] # 0)

C1_Witness ==
    /\ pc = "Advise"
    /\ returned = <<1>>
    /\ NCalls("ask_llm_for_fix") = 1
    /\ Str(user_input) = "ls /tmp"

\* C2: in agent mode one failing line causes at most two run_capturing calls
\* (the command and the fix candidate) and at most one advisory call; when
\* the re-execution has returned, with whatever exit code, main is back at
\* the prompt and no further advisory call has been made.
C2_AgentOneReexecution ==
    AGENT_MODE =>
        /\ NCalls("run_capturing") <= 2
        /\ NCalls("ask_llm_for_fix") <= 1
        /\ Len(returned) <= 2
        /\ Len(returned) = 2 => (pc = "Prompt" /\ NCalls("ask_llm_for_fix") = 1)

C2_Witness ==
    /\ AGENT_MODE
    /\ returned = <<1, 1>>
    /\ pc = "Prompt"
    /\ Len(calls) = 3

\* the affirmative answers: the single character y or Y
Yes == {<<"y">>, <<"Y">>}

\* C3: in interactive mode a second run_capturing call is made only from the
\* confirmation prompt, on the answer y or Y, and for the fix candidate;
\* on every other answer, the empty one included, no call is made and main
\* returns to the prompt.
C3_InteractiveNeedsYes ==
    [][ ~AGENT_MODE =>
          /\ (Len(calls') > 1 /\ Len(calls') > Len(calls)
                /\ calls'[Len(calls')].fn = "run_capturing")
               => (/\ pc = "Confirm"
                   /\ confirm' # <<>>
                   /\ confirm'[1] \in Yes
                   /\ calls' = Append(calls, [fn |-> "run_capturing", arg |-> fixed_cmd]))
          /\ (pc = "Confirm" /\ confirm' # <<>> /\ confirm'[1] \notin Yes)
               => (calls' = calls /\ pc' = "Prompt") ]_vars

C3_Witness ==
    /\ ~AGENT_MODE
    /\ pc = "Prompt"
    /\ confirm = << <<"y", "e", "s">> >>
    /\ fixed_cmd = <<"l", "s">>
    /\ NCalls("run_capturing") = 1

\* C4: a line whose first token is in IGNORE_LIST never goes through
\* run_capturing and never reaches the advisory client, whatever exit code
\* its program ends with.
C4_RawTerminalNeverCaptured ==
    base_cmd \in IGNORE_LIST =>
        /\ NCalls("run_capturing") = 0
        /\ NCalls("ask_llm_for_fix") = 0
        /\ pc \notin {"Capturing", "Advise", "Confirm"}
        /\ rc_pc = "idle"
        /\ captured_output = <<>>
        /\ returned = <<>>

C4_Witness ==
    /\ base_cmd = "vim"
    /\ pc = "Prompt"
    /\ ri # <<>>
    /\ ri[1].code = <<1>>

\* C5: during a capturing execution the bytes written to the display and
\* the bytes in the capture buffer are the same sequence, at every point of
\* the relay loop and when the loop has been left; between the write and
\* the extend of one chunk the display is ahead by exactly that chunk.
C5_DisplayEqualsBuffer ==
    pc = "Capturing" =>
        IF rc_pc \in {"extend", "dextend"}
        THEN shown = Cat(captured_output, data)
        ELSE shown = captured_output

\* four chunks of the poll loop and the chunk of the final drain relayed
C5_Witness ==
    /\ pc = "Capturing"
    /\ rc_pc = "wait"
    /\ data = <<1024, 4097>>
    /\ shown = << <<0, 4097>> >>
    /\ captured_output = << <<0, 4097>> >>

\* C6: no failure terminates the session: main leaves its loop only through
\* exit, quit or end of input, never through an exception.
C6_NoFailureIsFatal == pc # "Crashed"

\* a KeyboardInterrupt is raised at the prompt, during run_interactive,
\* during run_capturing (of the command or of the fix), during the advisory
\* call or at the confirmation prompt
InterruptStep ==
    \/ PromptRaise("KeyboardInterrupt")
    \/ InteractiveDone([exc |-> "KeyboardInterrupt", code |-> <<>>])
    \/ RcRaise("KeyboardInterrupt")
    \/ LLMRaise("KeyboardInterrupt", TRUE)
    \/ ConfirmRaise("KeyboardInterrupt")

\* C7: a KeyboardInterrupt in any of these states takes main back to the
\* prompt; the session does not end.
C7_InterruptReturnsToPrompt == [][InterruptStep => pc' = "Prompt"]_vars

\* an interrupt during the re-execution of the fix has been handled
C7_Witness ==
    /\ pc = "Prompt"
    /\ Len(calls) = 3
    /\ returned = <<1>>
    /\ printed # <<>>
    /\ printed[Len(printed)] = "newline"

\* C8: run_interactive returns 127 when the executable is not found, 1 on
\* any other spawn failure and otherwise the exit code of the child.
C8_InteractiveExitCode ==
    (ri # <<>> /\ exit_code # <<>>) =>
        exit_code[1] = (IF ri[1].exc = "" THEN ri[1].code[1]
                        ELSE IF ri[1].exc = "FileNotFoundError" THEN 127
                        ELSE 1)

\* the tags an opening fence may carry
FenceTags == {<<>>, <<"b", "a", "s", "h">>, <<"s", "h">>}

\* the openings of fenced blocks in t: the pairs of the position of an
\* opening fence, with its tag and newline, and the position where the body
\* begins
Openings(t) ==
    {ib \in {<<i, i + Len(tag) + 4>> : i \in 1..Len(t), tag \in FenceTags} :
        \E tag \in FenceTags :
            /\ ib[2] = ib[1] + Len(tag) + 4
            /\ LooksAt(t, ib[1], Fence \o tag \o <<NL>>)}

\* the positions of the fences of t
Fences(t) == {e \in 1..Len(t) : LooksAt(t, e, Fence)}

\* the openings that are closed: a fence stands at or after the body's begin
ClosedOpenings(t) == {ib \in Openings(t) : \E e \in Fences(t) : e >= ib[2]}

HasBlock(t) == ClosedOpenings(t) # {}

\* the interior of the first fenced block of t: the leftmost opening that is
\* closed, up to the nearest closing fence
FirstInterior(t) ==
    LET blocks == ClosedOpenings(t)
        first == CHOOSE ib \in blocks : \A other \in blocks : ib[1] <= other[1]
        closes == {e \in Fences(t) : e >= first[2]}
        close == CHOOSE e \in closes : \A other \in closes : e <= other
    IN  SubSeq(t, first[2], close - 1)

\* t without its leading and trailing whitespace
Trimmed(t) ==
    LET solid == {k \in 1..Len(t) : t[k] \notin PyWhitespace}
    IN  IF solid = {} THEN <<>>
        ELSE SubSeq(t, CHOOSE k \in solid : \A j \in solid : k <= j,
                       CHOOSE k \in solid : \A j \in solid : k >= j)

\* C9: for every response text extract_code_block returns the trimmed
\* interior of the first fenced block (optionally tagged bash or sh) when
\* there is one and the whole text trimmed when there is none; extracting
\* again from the result returns the result.
C9_ExtractionContract ==
    /\ ex_pc \in {"once", "twice"} =>
         ex_out[1] = (IF HasBlock(ex_text) THEN Trimmed(FirstInterior(ex_text))
                      ELSE Trimmed(ex_text))
    /\ ex_pc = "twice" => ex_out[2] = ex_out[1]

\* a text with two fenced blocks, extracted twice
C9_Witness ==
    /\ ex_pc = "twice"
    /\ ex_text = Fence \o <<"s", "h", NL, " ", "x", NL>> \o Fence \o <<NL>>
                   \o Fence \o <<NL, "y">> \o Fence
    /\ ex_out = << <<"x">>, <<"x">> >>

\* the step is the cd built-in
CdStep == \E line \in Lines : BuiltinCd(line)

\* the directory the cd built-in of the step is given, "" when the token
\* list it reads is unassigned
CdTarget ==
    IF ~tokens_bound' THEN ""
    ELSE IF Len(tokens') > 1 THEN tokens'[2] ELSE HOME

\* C10: when the directory the cd built-in is given cannot be entered, the
\* error is printed, the working directory stays, no executor and no
\* advisory call is made and main returns to the prompt; and the working
\* directory changes in no other step than a cd built-in that succeeds.
C10_CdFailureKeepsCwd ==
    [][ /\ (CdStep /\ CdTarget \notin Dirs)
             => (/\ cwd' = cwd
                 /\ pc' = "Prompt"
                 /\ calls' = <<>>
                 /\ rc_pc' = "idle"
                 /\ printed' # <<>>)
        /\ cwd' # cwd => (CdStep /\ CdTarget \in Dirs /\ cwd' = CdTarget) ]_vars

\* cd to a directory that does not exist failed after an earlier cd succeeded
C10_Witness ==
    /\ pc = "Prompt"
    /\ printed = <<"cd: FileNotFoundError">>
    /\ Str(user_input) = "cd /no"
    /\ cwd = "/tmp"

\* the cd lines of the model whose target is the home directory once it is
\* home-expanded: cd without an argument and cd with the argument ~
HomeCdLines == { <<"c", "d">>, <<"c", "d", " ", "~">> }

\* C11: the cd built-in home-expands its target: cd without an argument and
\* cd with the argument ~ both enter the user's home directory, which
\* exists, and print no error.
C11_CdHomeExpands ==
    [][ \A line \in HomeCdLines :
            BuiltinCd(line) => (cwd' = HOME /\ printed' = <<>>) ]_vars

\* C12: a failure of the advisory call does not propagate.  main is never
\* ended by an exception in the step that leaves the advisory call unless
\* ask_llm_for_fix had returned; and when it returns the error text, that
\* text is the suggestion presented, and main goes on to the confirmation
\* prompt (interactive mode) or to the automatic execution (agent mode).
C12_AdvisoryFailureIsInline ==
    [][ /\ (pc = "Advise" /\ pc' = "Crashed") => response' # <<>>
        /\ (pc = "Advise" /\ response' = LLMErrorText) =>
              /\ fixed_cmd' = LLMErrorText
              /\ printed'[Len(printed) + 1] = "Suggested Fix"
              /\ IF AGENT_MODE
                 THEN calls' = Append(calls, [fn |-> "run_capturing",
                                              arg |-> LLMErrorText])
                 ELSE pc' = "Confirm" /\ calls' = calls ]_vars

\* the advisory call failed, the error text was presented, the user
\* declined it and main is back at the prompt
C12_Witness ==
    /\ ~AGENT_MODE
    /\ pc = "Prompt"
    /\ response = LLMErrorText
    /\ fixed_cmd = LLMErrorText
    /\ confirm = << <<"n">> >>
    /\ printed = <<"Analyzing failure", "Suggested Fix">>

RECURSIVE ByteAt(_, _)
\* the byte at position i (from 1) of the byte string buf
ByteAt(buf, i) ==
    LET size == Head(buf)[2] - Head(buf)[1]
    IN  IF i <= size THEN Head(buf)[1] + i - 1 ELSE ByteAt(Tail(buf), i - size)

\* t is the tail of length n of the byte string f
IsTailOf(t, f, n) ==
    /\ NBytes(t) = n
    /\ n <= NBytes(f)
    /\ \A i \in 1..n : ByteAt(t, i) = ByteAt(f, NBytes(f) - n + i)

C14_BufferComplete ==
    [][ (pc = "Capturing" /\ rc_pc = "dextend" /\ rc_pc' = "wait")
            => (child # "running" /\ NBytes(captured_output') = nwritten) ]_vars

\* C15: outside run_capturing neither end of a pseudo-terminal pair it
\* opened is open in the parent: both were closed before it returned or
\* raised.
C15_DescriptorsClosed ==
    pc # "Capturing" => (master # "open" /\ slave # "open")

\* C16: whenever main is at the prompt no unreaped child of run_capturing
\* exists: every child spawned has been waited on.
C16_ChildReaped == pc = "Prompt" => child \in {"none", "reaped"}

\* C17: the final drain does not block: whenever run_capturing has seen the
\* child's exit and is about to read the rest, the read returns at once,
\* with data or with the end of the stream, whether or not another process
\* still holds the secondary side open.
C17_DrainDoesNotBlock ==
    (pc = "Capturing" /\ rc_pc = "drain") => (pending > 0 \/ hangup)

\* C18: no command is executed for an empty fix candidate: run_capturing is
\* never called with the empty string.
C18_EmptyFixNotRun ==
    \A i \in 1..Len(calls) : calls[i].fn = "run_capturing" => calls[i].arg # <<>>

\* the tokens of the line the step has read
LineTokens == shlex_split(user_input').toks

\* C19: what main does for a line depends on that line only: the token list
\* handed to run_interactive is the token list of the line just read, and
\* the directory the cd built-in enters is the one that line names (home
\* when it names none); a line whose tokenization fails hands over nothing.
C19_LineOnly ==
    [][ /\ (pc = "Prompt" /\ pc' = "Interactive")
             => (~shlex_split(user_input').err /\ cmd_list' = LineTokens)
        /\ cwd' # cwd
             => (/\ ~shlex_split(user_input').err
                 /\ cwd' = IF Len(LineTokens) > 1 THEN LineTokens[2] ELSE HOME) ]_vars

\* C20: in agent mode a failed advisory call leads to no execution: when
\* ask_llm_for_fix returned the error text, run_capturing is called for the
\* line no second time.
C20_ErrorTextNotRun ==
    (AGENT_MODE /\ response = LLMErrorText) => NCalls("run_capturing") <= 1

====
